---- MODULE Spec2Model ----
(***************************************************************************)
(* Model of scrape_geforce_now.py: the acquisition pipeline (introspected  *)
(* query, template probing, cursor pagination with retry, static JSON      *)
(* fallback) and the output stage of main().                               *)
(*                                                                         *)
(* The program is single-threaded.  Every action is one network request    *)
(* together with all the code that runs up to the next request (or up to   *)
(* the end of the run).  The reply of the remote is the action's input.    *)
(***************************************************************************)
EXTENDS Integers, Sequences, FiniteSets, TLC

\* ------------------------------------------------------------------ bounds
\* The remote declares a continuation on at most MaxPages - 1 pages.
MaxPages == 3
\* A page carries at most MaxPageItems records.
MaxPageItems == 3
\* The static JSON list carries at most MaxFlat records.
MaxFlat == 2
\* contentRatings carries at most MaxRatings entries.
MaxRatings == 3
\* variants carries at most MaxVariants entries.
MaxVariants == 2
\* storeIds carries at most MaxStoreIds entries.
MaxStoreIds == 2

\* ------------------------------------------------------- program constants
PAGE_SIZE == 1200
MAX_RETRIES == 3
INITIAL_BACKOFF == 2

\* QUERY_TEMPLATES[idx + 1] is the code's QUERY_TEMPLATES[idx] (Python is 0-based).
QUERY_TEMPLATES == <<"template0", "template1", "template2">>

\* The query built from the introspected field selection.
IntrospectedShape == "introspected"

NoShape == "None"

\* ------------------------------------------------------------ Python values
\* Optional[list]: None, or a list.
None == [none |-> TRUE, list |-> <<>>]
Some(l) == [none |-> FALSE, list |-> l]

RECURSIVE Pow2(_)
Pow2(n) == IF n = 0 THEN 1 ELSE 2 * Pow2(n - 1)

RECURSIVE Flatten(_)
\* The concatenation of a sequence of lists, in order.
Flatten(ss) == IF ss = <<>> THEN <<>> ELSE Head(ss) \o Flatten(Tail(ss))

Last(s) == s[Len(s)]

\* The records first, first + 1, ..., first + n - 1 of the remote catalogue.
Records(first, n) == [i \in 1..n |-> first + i - 1]

\* ------------------------------------------------------------ remote replies
\* The "items" value of an apps object: the key absent, null, or a list.
ItemsAbsent == [present |-> "absent", list |-> <<>>]
ItemsNull == [present |-> "null", list |-> <<>>]
ItemsList(l) == [present |-> "list", list |-> l]

\* A parsed response body.
\*   schema  : what the introspection result holds ("malformed": the path
\*             data.__schema.types is not there; "no_apps": no root type with
\*             an apps field; "no_apps_type": the type of apps has no fields;
\*             "full": the apps type was found)
\*   apps    : the path data.apps: "missing" (a key of the path is absent),
\*             "null" (data or apps is null), "dict"
\*   items, pageInfo ("null" or "dict"), hasNextPage, endCursor ("absent": no
\*             such key): the content of the apps object
Body(schema, apps, items, pageInfo, hasNextPage, endCursor) ==
    [schema |-> schema, apps |-> apps, items |-> items, pageInfo |-> pageInfo,
     hasNextPage |-> hasNextPage, endCursor |-> endCursor]

NullBody == Body("malformed", "missing", ItemsAbsent, "null", FALSE, "absent")

\* What one HTTP request yields: no response at all (received = FALSE), a
\* response with a non-success status (ok = FALSE), a body that is not JSON
\* (parses = FALSE), a body with an "errors" key (errors = TRUE), or a body.
Reply(received, ok, parses, errors, body) ==
    [received |-> received, ok |-> ok, parses |-> parses, errors |-> errors,
     body |-> body]

\* The replies that carry one of `bodies`, one more that carries a body and an
\* "errors" key, and the replies that carry none.
RepliesWith(bodies) ==
    {Reply(TRUE, TRUE, TRUE, FALSE, b) : b \in bodies}
    \cup {Reply(TRUE, TRUE, TRUE, TRUE, CHOOSE b \in bodies : b.apps = "dict" \/ b.schema = "full"),
          Reply(FALSE, FALSE, FALSE, FALSE, NullBody),
          Reply(TRUE, FALSE, FALSE, FALSE, NullBody),
          Reply(TRUE, TRUE, FALSE, FALSE, NullBody)}

SchemaBodies ==
    {Body(s, "missing", ItemsAbsent, "null", FALSE, "absent") :
        s \in {"malformed", "no_apps", "no_apps_type", "full"}}

\* Replies to a probe (first: 1): the path data.apps in any of its forms, and
\* zero or one test item.
ProbeBodies ==
    {Body("malformed", a, i, "null", FALSE, "absent") :
        a \in {"missing", "null", "dict"},
        i \in {ItemsAbsent, ItemsNull, ItemsList(<<>>), ItemsList(<<1>>)}}

\* The continuation token the remote hands out with its k-th page.
Token(k) == "c" \o ToString(k)

\* Replies to the request for page number k when `sent` records were served
\* before and the remote may (more = TRUE) or may not declare a continuation.
PageBodies(k, sent, more) ==
    {Body("malformed", a, ItemsAbsent, "null", FALSE, "absent") : a \in {"missing", "null"}}
    \cup {Body("malformed", "dict", i, "null", FALSE, "absent") :
            i \in {ItemsAbsent, ItemsNull}}
    \cup {Body("malformed", "dict", ItemsList(Records(sent + 1, n)), "null", FALSE, "absent") :
            n \in 0..MaxPageItems}
    \cup {Body("malformed", "dict", ItemsList(Records(sent + 1, n)), "dict", h, c) :
            n \in 0..MaxPageItems,
            h \in (IF more THEN BOOLEAN ELSE {FALSE}),
            c \in {Token(k), "absent"}}

\* What the remote did, read off the reply itself (recorded in the history
\* variables, never used by the program's steps).
\* The request was answered with a success status and a JSON body without an
\* "errors" key.
RequestSucceeded(reply) == reply.received /\ reply.ok /\ reply.parses /\ ~reply.errors

\* A probe succeeded: the request did, and the body holds neither a null on
\* the way to the item list nor a null item list.
ProbeSucceeded(reply) ==
    /\ RequestSucceeded(reply)
    /\ reply.body.apps # "null"
    /\ ~(reply.body.apps = "dict" /\ reply.body.items.present = "null")

\* The introspection was answered with a schema that has the apps field and
\* the fields of its type.
SchemaFound(reply) == RequestSucceeded(reply) /\ reply.body.schema = "full"

\* The body of the reply holds an item list at data.apps.items.
HasItemList(reply) ==
    /\ RequestSucceeded(reply)
    /\ reply.body.apps = "dict"
    /\ reply.body.items.present = "list"

\* try_introspected_query has sent nothing.
NoDiscovery == [introspections |-> 0, probes |-> 0, found |-> FALSE,
                answered |-> FALSE, usable |-> FALSE]

\* The item list a page carries (none, or null, is an empty page).
ServedItems(body) == IF body.items.present = "list" THEN body.items.list ELSE <<>>

\* The "pageInfo" a page carries: null or a dict, with its continuation flag
\* and its token ("absent" for a dict without "endCursor").
ServedPageInfo(body) ==
    [present |-> body.pageInfo, hasNextPage |-> body.hasNextPage,
     endCursor |-> body.endCursor]

\* No page was received.
NoPageInfo == [present |-> "none", hasNextPage |-> FALSE, endCursor |-> "absent"]

\* --------------------------------------------------------- transport layer
Raise(exc) == [exc |-> exc, data |-> NullBody]
Return(data) == [exc |-> "none", data |-> data]

\* _post_graphql that returns the body of a success status whenever it
\* parses, "errors" key or not.
_post_graphql_partial(reply) ==
    IF ~reply.received THEN Raise("ConnectionError")
    ELSE IF ~reply.ok THEN Raise("HTTPError")
    ELSE IF ~reply.parses THEN Raise("JSONDecodeError")
    ELSE Return(reply.body)

\* _post_graphql: one request; raises on a missing response, a non-success
\* status, an unparsable body, or an "errors" key; else returns the body.
_post_graphql(reply) ==
    IF ~reply.received THEN Raise("ConnectionError")
    ELSE IF ~reply.ok THEN Raise("HTTPError")
    ELSE IF ~reply.parses THEN Raise("JSONDecodeError")
    ELSE IF reply.errors THEN Raise("ValueError")
    ELSE Return(reply.body)

\* data.get("data", {}).get("apps", {}).get("items", []): raises when data or
\* apps is null; a missing key yields the default.
LenientItems(data) ==
    IF data.apps = "null" THEN [exc |-> "AttributeError", items |-> ItemsNull]
    ELSE IF data.apps = "missing" THEN [exc |-> "none", items |-> ItemsList(<<>>)]
    ELSE IF data.items.present = "absent" THEN [exc |-> "none", items |-> ItemsList(<<>>)]
    ELSE [exc |-> "none", items |-> data.items]

\* The test query without its check of the item list.
IntrospectedProbeUnchecked(r) == r.exc = "none"

\* The probe of the introspected query works when the request returns and
\* items "is not None".
IntrospectedProbeWorks(r) ==
    /\ r.exc = "none"
    /\ LenientItems(r.data).exc = "none"
    /\ LenientItems(r.data).items.present # "null"

\* The probe of a template works when the request returns and len(items) can
\* be taken (len(None) raises TypeError, caught like any other exception).
TemplateProbeWorks(r) ==
    /\ r.exc = "none"
    /\ LenientItems(r.data).exc = "none"
    /\ LenientItems(r.data).items.present = "list"

\* introspect_schema: data["data"]["__schema"]["types"] raises on a body
\* without that path; else the map of the types that have fields.
introspect_schema(r) ==
    IF r.exc # "none" THEN [exc |-> r.exc, types_map |-> "none"]
    ELSE IF r.data.schema = "malformed" THEN [exc |-> "KeyError", types_map |-> "none"]
    ELSE [exc |-> "none", types_map |-> r.data.schema]

\* discover_apps_query_fields: None unless the root type has an apps field
\* whose type has fields.
discover_apps_query_fields(types_map) ==
    IF types_map = "full" THEN "fields" ELSE "None"

\* The bodies a GraphQL request of the program can be answered with.
PostBodies ==
    SchemaBodies \cup ProbeBodies
        \cup UNION {PageBodies(k, 0, TRUE) : k \in 1..MaxPages}

\* The replies to one request: none; a non-success status, with a body that
\* is not JSON or with any body, with or without an "errors" key; a success
\* status with a body that is not JSON; a success status with any body, with
\* or without an "errors" key.
PostReplies ==
    {Reply(FALSE, FALSE, FALSE, FALSE, NullBody),
     Reply(TRUE, FALSE, FALSE, FALSE, NullBody),
     Reply(TRUE, TRUE, FALSE, FALSE, NullBody)}
    \cup {Reply(TRUE, ok, TRUE, e, b) : ok \in BOOLEAN, e \in BOOLEAN, b \in PostBodies}

\* What the remote has for a request and for the one after it: that one
\* would be answered with a full page, or not at all.
Wires ==
    {<<first, second>> :
        first \in PostReplies,
        second \in {Reply(TRUE, TRUE, TRUE, FALSE,
                          Body("malformed", "dict", ItemsList(Records(1, 1)),
                               "dict", FALSE, "absent")),
                    Reply(FALSE, FALSE, FALSE, FALSE, NullBody)}}

\* _post_graphql has not been called.
NoPost == [sent |-> 0, reply |-> Reply(FALSE, FALSE, FALSE, FALSE, NullBody),
           outcome |-> "none", exc |-> "none", data |-> NullBody]

\* ------------------------------------------------------------ retry wrapper
\* The loop with one turn too many.
ExhaustedOneLate(attempt) == attempt >= MAX_RETRIES

\* for attempt in range(MAX_RETRIES): the loop ends after the failed attempt
\* with index `attempt` (0-based) when no index is left.
Exhausted(attempt) == attempt + 1 >= MAX_RETRIES

\* The handler keeping the first failure instead of the latest.
KeepFirst(before, exc) == IF before = "none" THEN exc ELSE before

\* last_exc = exc in the handler of an attempt that failed with `exc`
\* (`before` is last_exc before that attempt).
AssignLast(before, exc) == exc

\* The delay growing by INITIAL_BACKOFF with every attempt.
BackoffLinear(attempt) == INITIAL_BACKOFF * (attempt + 1)

\* wait = INITIAL_BACKOFF * (2 ** attempt)
Backoff(attempt) == INITIAL_BACKOFF * Pow2(attempt)

\* ------------------------------------------------------------ shape selection
\* The loop without its early return: it goes on to the next template after
\* one that works and settles on a working last one only.
AfterProbeNoEarlyReturn(works, idx) ==
    IF idx + 1 < Len(QUERY_TEMPLATES) THEN "next"
    ELSE IF works THEN "use"
    ELSE "none"

\* probe_working_template's loop after the probe of template idx: "use" is
\* return idx, "next" the next turn of the loop, "none" the return None after
\* the loop.
AfterProbe(works, idx) ==
    IF works THEN "use"
    ELSE IF idx + 1 < Len(QUERY_TEMPLATES) THEN "next"
    ELSE "none"

\* ---------------------------------------------------------------- paginator
\* items = apps.get("items") or []
ItemsOrEmpty(data) == IF data.items.present = "list" THEN data.items.list ELSE <<>>

\* The accumulator extended at the wrong end.
ExtendAtFront(all, items) == items \o all

\* The accumulator replaced by the page instead of extended.
ExtendOverwrites(all, items) == items

\* all_items.extend(items)
Extend(all, items) == all \o items

\* page_info = apps.get("pageInfo") or {};  page_info.get("hasNextPage")
HasNextPage(data) == data.pageInfo = "dict" /\ data.hasNextPage

\* The cursor left empty whatever the response holds.
EndCursorEmpty(data) == ""

\* cursor = page_info.get("endCursor", "")
EndCursor(data) == IF data.endCursor = "absent" THEN "" ELSE data.endCursor

\* The except branch without the partial result.
OnPageErrorNone(all) == None

\* The except branch without the None of an empty accumulator.
OnPageErrorList(all) == Some(all)

\* The except branch of the page loop: the items fetched so far if there are
\* any, else None.
OnPageError(all) == IF all # <<>> THEN Some(all) ELSE None

\* data["data"]["apps"] and apps.get(...), outside any try: the exception a
\* body without an apps object raises ("none" when there is one; a null
\* raises TypeError when it is data, AttributeError when it is apps).
PageBodyError(data) ==
    IF data.apps = "missing" THEN "KeyError"
    ELSE IF data.apps = "null" THEN "TypeError"
    ELSE "none"

\* main testing "not raw_games" instead of "raw_games is None".
AfterGraphqlFalsy(ret) == IF ret.none \/ ret.list = <<>> THEN "static" ELSE "save_raw"

\* main: raw_games is None -> fetch_static_json, else go on to the output.
AfterGraphql(ret) == IF ret.none THEN "static" ELSE "save_raw"

\* build_datafeed([item_to_videogame(g) for g in raw_games]): one element per
\* source record, in order.
build_datafeed(games) == [i \in 1..Len(games) |-> [of |-> games[i]]]

\* --------------------------------------------------------------- normalizer
\* The values of a source record's fields: the key is not there (Missing),
\* null (PyNone), a string, a list, a dict, a number.
Missing == [t |-> "missing"]
PyNone == [t |-> "none"]
Str(x) == [t |-> "str", v |-> x]
List(x) == [t |-> "list", v |-> x]
Dict(x) == [t |-> "dict", v |-> x]
Num(x) == [t |-> "int", v |-> x]

\* Python's truth value.
Truthy(x) ==
    CASE x.t = "str" -> x.v # ""
      [] x.t = "list" -> x.v # <<>>
      [] x.t = "dict" -> TRUE
      [] x.t = "int" -> x.v # 0
      [] OTHER -> FALSE

\* d.get(key): None for a key that is not there.
Get(x) == IF x.t = "missing" THEN PyNone ELSE x

\* d.get(key, default)
GetOr(x, default) == IF x.t = "missing" THEN default ELSE x

\* a or b
Or(a, b) == IF Truthy(a) THEN a ELSE b

\* What an f-string makes of a value.
Fmt(x) == IF x.t = "str" THEN x.v ELSE "None"

\* str.upper(), on the strings the records hold.
Upper(x) ==
    CASE x = "esrb" -> "ESRB"
      [] x = "pegi" -> "PEGI"
      [] x = "steam" -> "STEAM"
      [] x = "epic" -> "EPIC"
      [] OTHER -> x

PLAY_URL == "https://play.geforcenow.com/mall/#/deeplink?game-id="

\* build_play_url
build_play_url(item) ==
    PLAY_URL \o Fmt(Or(Or(Get(item.cmsId), Get(item.id)), Str("")))

\* IMAGE_KEYS with its first two roles in the other order.
IMAGE_KEYS_SWAPPED == <<"KEY_ART", "GAME_BOX_ART", "KEY_IMAGE", "HERO_IMAGE",
                        "FEATURE_IMAGE", "MARQUEE_HERO_IMAGE", "TV_BANNER">>

\* The role keys pick_image scans, in its order.
IMAGE_KEYS == <<"GAME_BOX_ART", "KEY_ART", "KEY_IMAGE", "HERO_IMAGE",
                "FEATURE_IMAGE", "MARQUEE_HERO_IMAGE", "TV_BANNER">>

\* The flat fields pick_image scans after the role map.
FLAT_IMAGE_KEYS == <<"image", "imageUrl", "boxArt">>

RECURSIVE FirstTruthy(_, _)
\* for key in keys: val = d.get(key); if val: return val -- None when the
\* loop ends without a return.
FirstTruthy(d, keys) ==
    IF keys = <<>> THEN PyNone
    ELSE IF Truthy(Get(d[Head(keys)])) THEN d[Head(keys)]
    ELSE FirstTruthy(d, Tail(keys))

\* pick_image
pick_image(item) ==
    LET images == Get(item.images)
        fromMap == IF images.t = "dict" THEN FirstTruthy(images.v, IMAGE_KEYS) ELSE PyNone
    IN  IF Truthy(fromMap) THEN fromMap
        ELSE FirstTruthy(item, FLAT_IMAGE_KEYS)

\* label = f"{rtype} {cat}".strip(), for parts without blanks at their ends.
Label(rtype, cat) ==
    IF rtype = "" THEN cat
    ELSE IF cat = "" THEN rtype
    ELSE rtype \o " " \o cat

RECURSIVE ScanRatings(_, _)
\* The loop of format_content_rating over the entries left, from the values
\* acc = [esrb, pegi, first] of its three variables.
ScanRatings(crs, acc) ==
    IF crs = <<>> THEN acc
    ELSE LET cr == Head(crs)
             rtype == Upper(Fmt(Or(Get(cr.type), Str(""))))
             cat == Fmt(Or(Get(cr.categoryKey), Str("")))
             label == Str(Label(rtype, cat))
             first == IF ~Truthy(acc.first) THEN label ELSE acc.first
         IN  ScanRatings(Tail(crs),
                 IF rtype = "ESRB" THEN [esrb |-> label, pegi |-> acc.pegi, first |-> first]
                 ELSE IF rtype = "PEGI" THEN [esrb |-> acc.esrb, pegi |-> label, first |-> first]
                 ELSE [esrb |-> acc.esrb, pegi |-> acc.pegi, first |-> first])

\* format_content_rating with "pegi or esrb or first".
format_content_rating_pegi_first(item) ==
    LET content_ratings == Get(item.contentRatings)
    IN  IF content_ratings.t = "list" /\ content_ratings.v # <<>>
        THEN LET acc == ScanRatings(content_ratings.v,
                                    [esrb |-> PyNone, pegi |-> PyNone, first |-> PyNone])
             IN  Or(Or(acc.pegi, acc.esrb), acc.first)
        ELSE PyNone

\* format_content_rating
format_content_rating(item) ==
    LET content_ratings == Get(item.contentRatings)
    IN  IF content_ratings.t = "list" /\ content_ratings.v # <<>>
        THEN LET acc == ScanRatings(content_ratings.v,
                                    [esrb |-> PyNone, pegi |-> PyNone, first |-> PyNone])
             IN  Or(Or(acc.esrb, acc.pegi), acc.first)
        ELSE PyNone

\* Optional without its test: vg[key] = v whatever v is.
OptionalUnguarded(v) == v

\* if v: vg[key] = v -- the key stays out of the entity otherwise.
Optional(v) == IF Truthy(v) THEN v ELSE Missing

\* genres if isinstance(genres, list) else [genres]
AsList(v) == IF v.t = "list" THEN v ELSE List(<<v>>)

\* The loop over maxOnlinePlayers, maxLocalPlayers: the last one that is set.
number_of_players(item) ==
    IF Truthy(Get(item.maxLocalPlayers)) THEN item.maxLocalPlayers
    ELSE Optional(Get(item.maxOnlinePlayers))

STEAM_URL == "https://store.steampowered.com/app/"
EPIC_URL == "https://store.epicgames.com/p/"

RECURSIVE StoreUrls(_)
\* The loop over storeIds: one URL per entry of a known store with an id.
StoreUrls(sids) ==
    IF sids = <<>> THEN <<>>
    ELSE LET sid == Head(sids)
             store == Upper(Fmt(Or(Get(sid.store), Str(""))))
             sid_val == Fmt(Or(Get(sid.id), Str("")))
         IN  (IF store = "STEAM" /\ sid_val # "" THEN <<Str(STEAM_URL \o sid_val)>>
              ELSE IF store = "EPIC" /\ sid_val # "" THEN <<Str(EPIC_URL \o sid_val)>>
              ELSE <<>>) \o StoreUrls(Tail(sids))

\* same_as: the store URLs, then steamUrl unless it is among them.
same_as(item) ==
    LET storeIds == Or(Get(item.storeIds), List(<<>>))
        urls == StoreUrls(storeIds.v)
        steam_url == Get(item.steamUrl)
    IN  IF Truthy(steam_url) /\ \A i \in 1..Len(urls) : urls[i] # steam_url
        THEN Append(urls, steam_url)
        ELSE urls

\* computed.get("earliestReleaseDate") or computed.get("earliestStreetDate")
release_date(item) ==
    LET computed == Get(item.computedValues)
    IN  IF computed.t = "dict"
        THEN Or(Get(computed.v.earliestReleaseDate), Get(computed.v.earliestStreetDate))
        ELSE PyNone

\* The primary edition, with the PlayGameAction on the deep link.
PrimaryEdition(item) ==
    [kind |-> "primary",
     name |-> Str(Fmt(GetOr(item.title, Str(""))) \o " (GeForce NOW)"),
     applicationCategory |-> Missing,
     urlTemplate |-> Str(build_play_url(item))]

\* status = gfn_info.get("status") of variant.get("gfn") or {}
VariantStatus(variant) ==
    LET gfn_info == Get(variant.gfn)
    IN  IF gfn_info.t = "dict" THEN Get(gfn_info.v.status) ELSE PyNone

\* VariantSurvives with the test "status != AVAILABLE" only.
VariantSurvivesAvailableOnly(variant) ==
    LET status == VariantStatus(variant)
    IN  ~(Truthy(status) /\ status.v # "AVAILABLE")

\* A variant is kept unless "status and status not in (AVAILABLE, MAINTENANCE)".
VariantSurvives(variant) ==
    LET status == VariantStatus(variant)
    IN  ~(Truthy(status) /\ status.v \notin {"AVAILABLE", "MAINTENANCE"})

\* var_ed: the edition of one variant.
VariantEdition(item, variant) ==
    LET v_store == Or(Get(variant.appStore), Str(""))
        v_title == Or(Get(variant.title), GetOr(item.title, Str("")))
    IN  [kind |-> "variant",
         name |-> IF Truthy(v_store)
                  THEN Str(Fmt(v_title) \o " (" \o v_store.v \o ")")
                  ELSE v_title,
         applicationCategory |-> Optional(v_store),
         urlTemplate |-> Missing]

\* editions: the primary one, then one per variant that is kept.
editions(item) ==
    LET variants == Or(Get(item.variants), List(<<>>))
        kept == SelectSeq(variants.v, VariantSurvives)
    IN  <<PrimaryEdition(item)>> \o [i \in 1..Len(kept) |-> VariantEdition(item, kept[i])]

\* item_to_videogame: the entity, with Missing for the keys it does not set.
item_to_videogame(item) ==
    LET genres == Get(item.genres)
        publisher == Or(Get(item.publisherName), Get(item.publisher))
        developer == Or(Get(item.developerName), Get(item.developer))
        keywords == Get(item.keywords)
        os_type == Get(item.osType)
        sameAs == same_as(item)
    IN  [id |-> "gfn-" \o Fmt(GetOr(item.id, Str(""))),
         name |-> GetOr(item.title, Str("")),
         url |-> build_play_url(item),
         applicationCategory |-> Str("Game"),
         description |-> Optional(Or(Get(item.longDescription), Get(item.description))),
         genre |-> IF Truthy(genres) THEN AsList(genres) ELSE Missing,
         contentRating |-> Optional(format_content_rating(item)),
         image |-> Optional(pick_image(item)),
         publisher |-> IF Truthy(publisher)
                       THEN Dict([type |-> "Organization", name |-> publisher])
                       ELSE Missing,
         contributor |-> IF Truthy(developer)
                         THEN Dict([type |-> "Organization", name |-> developer,
                                    roleName |-> "developer"])
                         ELSE Missing,
         keywords |-> IF Truthy(keywords) THEN AsList(keywords) ELSE Missing,
         gamePlatform |-> IF Truthy(os_type) THEN List(<<os_type>>) ELSE Missing,
         numberOfPlayers |-> number_of_players(item),
         playMode |-> Optional(Get(item.supportedGamePlayModes)),
         sameAs |-> Optional(List(sameAs)),
         datePublished |-> Optional(release_date(item)),
         exampleOfWork |-> editions(item)]

\* ----------------------------------------------------------- source records
\* The empty source record {}: none of the keys item_to_videogame reads.
Sparse ==
    [id |-> Missing, cmsId |-> Missing, title |-> Missing,
     longDescription |-> Missing, description |-> Missing,
     genres |-> Missing, keywords |-> Missing,
     contentRatings |-> Missing,
     images |-> Missing, image |-> Missing, imageUrl |-> Missing, boxArt |-> Missing,
     publisherName |-> Missing, publisher |-> Missing,
     developerName |-> Missing, developer |-> Missing,
     osType |-> Missing, maxOnlinePlayers |-> Missing, maxLocalPlayers |-> Missing,
     supportedGamePlayModes |-> Missing,
     storeIds |-> Missing, steamUrl |-> Missing,
     computedValues |-> Missing, variants |-> Missing]

\* A record of the catalogue with its identity and title.
Titled == [Sparse EXCEPT !.id = Str("123"), !.cmsId = Str("100"), !.title = Str("Alpha")]

\* A text field: not there, null, empty or the text.
Texts(x) == {Missing, PyNone, Str(""), Str(x)}

\* A field that holds one text or a list of texts.
TextLists(x) == Texts(x) \cup {List(<<>>), List(<<Str(x)>>), List(<<Str(x), Str("Indie")>>)}

\* All sequences over S of length at most n.
SeqsUpTo(S, n) == UNION {[1..k -> S] : k \in 0..n}

\* A list field: not there, null, or a list over S of at most n entries.
Lists(S, n) == {Missing, PyNone} \cup {List(x) : x \in SeqsUpTo(S, n)}

\* Records that differ in id, cmsId and title.
IdentityRecords ==
    {[Sparse EXCEPT !.id = i, !.cmsId = c, !.title = t] :
        i \in {Missing, PyNone, Str("123")},
        c \in {Missing, PyNone, Str("100")},
        t \in Texts("Alpha")}

\* The roles an "images" map of the remote can hold: those pick_image scans
\* and KEY_ICON, which the query templates request as well.
OTHER_IMAGE_KEYS == <<"KEY_ICON">>
ImageRoles == {IMAGE_KEYS[i] : i \in 1..Len(IMAGE_KEYS)}
                \cup {OTHER_IMAGE_KEYS[i] : i \in 1..Len(OTHER_IMAGE_KEYS)}

\* The URL a map holds for a role, one per role.
ImageUrl(role) == Str("https://img.nvidia.example/" \o role)

\* The image-role maps: each role set to its URL or not, the roles that are
\* not set being all left out or all empty.
ImageMaps ==
    {Dict([r \in ImageRoles |-> IF r \in set THEN ImageUrl(r) ELSE unset]) :
        set \in SUBSET ImageRoles, unset \in {Missing, Str("")}}

\* Records that differ in their images: the role map and the flat field.
ImageRecords ==
    {[Titled EXCEPT !.images = m, !.imageUrl = f] :
        m \in {Missing, PyNone} \cup ImageMaps,
        f \in {Missing, Str("https://img.nvidia.example/flat")}}

\* The entries of contentRatings.
RatingEntries ==
    [type : {Missing, Str("ESRB"), Str("esrb"), Str("PEGI"), Str("USK")},
     categoryKey : {Missing, Str("T")}]

RatingRecords ==
    {[Titled EXCEPT !.contentRatings = r] : r \in Lists(RatingEntries, MaxRatings)}

\* The "gfn" part of a variant: not there, null, or a dict with its status.
GfnInfos ==
    {Missing, PyNone}
        \cup {Dict([status |-> st]) :
                st \in {Missing, Str(""), Str("AVAILABLE"), Str("MAINTENANCE"),
                        Str("RETIRED")}}

\* The store and title of a variant: none, the store, both.
VariantNames ==
    {[appStore |-> Missing, title |-> Missing],
     [appStore |-> Str("STEAM"), title |-> Missing],
     [appStore |-> Str("EPIC"), title |-> Str("Alpha Deluxe")]}

\* The entries of variants.
VariantEntries ==
    {[gfn |-> g, appStore |-> n.appStore, title |-> n.title] :
        g \in GfnInfos, n \in VariantNames}

VariantRecords ==
    {[Titled EXCEPT !.variants = v] : v \in Lists(VariantEntries, MaxVariants)}

\* Records that differ in the texts of the optional fields.
TextRecords ==
    {[Titled EXCEPT !.longDescription = l, !.description = d] :
        l \in Texts("long text"), d \in Texts("short text")}
    \cup {[Titled EXCEPT !.genres = g, !.keywords = k] :
        g \in TextLists("Action"), k \in TextLists("coop")}
    \cup {[Titled EXCEPT !.publisherName = pn, !.publisher = pb,
                         !.developerName = dn, !.developer = dv] :
        pn \in {Missing, Str(""), Str("Acme")}, pb \in {Missing, PyNone, Str("Acme Ltd")},
        dn \in {Missing, Str(""), Str("Studio")}, dv \in {Missing, PyNone, Str("Studio Ltd")}}
    \cup {[Titled EXCEPT !.osType = os, !.maxOnlinePlayers = on,
                         !.maxLocalPlayers = lo, !.supportedGamePlayModes = pm] :
        os \in Texts("WINDOWS"), on \in {Missing, Num(0), Num(8)},
        lo \in {Missing, Num(0), Num(2)}, pm \in TextLists("SINGLE")}

\* The entries of storeIds.
StoreEntries ==
    [store : {Missing, Str("STEAM"), Str("steam"), Str("EPIC"), Str("GOG")},
     id : {Missing, Str("42")}]

\* Records that differ in the store references and the release dates.
ReferenceRecords ==
    {[Titled EXCEPT !.storeIds = ids, !.steamUrl = u] :
        ids \in Lists(StoreEntries, MaxStoreIds),
        u \in {Missing, Str(""), Str(STEAM_URL \o "42"), Str(STEAM_URL \o "7")}}
    \cup {[Titled EXCEPT !.computedValues = c] :
        c \in {Missing, PyNone}
              \cup {Dict([earliestReleaseDate |-> r, earliestStreetDate |-> st]) :
                        r \in Texts("2020-01-01"), st \in Texts("2019-12-01")}}

\* The source records item_to_videogame is applied to.
SourceRecord(r) ==
    \/ r \in IdentityRecords
    \/ r \in ImageRecords
    \/ r \in RatingRecords
    \/ r \in VariantRecords
    \/ r \in TextRecords
    \/ r \in ReferenceRecords

\* No record is being converted; no entity has been made.
NoItem == [id |-> Missing]
NoEntity == [id |-> ""]

\* -------------------------------------------------------------------- state
VARIABLES
    pc,            \* where main is: "main", "introspect", "intro_probe", "probe",
                   \* "page", "static", "save_raw", "emit", "done", "fatal"
    static_only,   \* args.static_only
    intro,         \* how try_introspected_query went
    probeLog,      \* history: the probes made, in order, with their verdicts
    template_idx,  \* idx of probe_working_template's loop
    query_str,     \* the query shape chosen, or NoShape
    all_items,     \* the paginator's accumulator
    cursor,        \* the paginator's cursor
    page,          \* the paginator's page counter
    attempt,       \* the retry loop's index
    last_exc,      \* the retry loop's last_exc
    slept,         \* history: the waits of the current retry invocation
    tries,         \* history: the transport calls of the current retry invocation
    netExc,        \* history: the exception of its latest failed transport call
    retry,         \* history: how the last finished retry invocation went
    served,        \* history: the item lists of the pages the remote served
    pagState,      \* how the page loop stands or ended
    lastRequest,   \* history: the last request sent
    raw_games,     \* main's raw_games
    staticCalls,   \* history: the requests made to the static JSON endpoint
    staticOK,      \* history: "none", or how the static endpoint answered
    raw_file,      \* the raw dump written, or None
    feed_out,      \* the data feed written, or None
    uncaught,      \* the exception that ended the run, or "none"
    item,          \* the source record item_to_videogame is applied to
    vg,            \* the entity item_to_videogame returned, or NoEntity
    page_info,     \* the "pageInfo" of the latest page response, as received,
                   \* while the page loop goes on
    discovery,     \* what try_introspected_query sent and what came back
    wire,          \* the replies the remote gives to the requests to come
    post           \* the latest call of _post_graphql: the requests it sent, the
                   \* reply it got, its outcome

vars == <<pc, static_only, intro, probeLog, template_idx,
          query_str, all_items, cursor, page, attempt, last_exc, slept, tries,
          netExc, retry, served, pagState, lastRequest, raw_games, staticCalls, staticOK,
          raw_file, feed_out, uncaught, item, vg, page_info,
          discovery, wire, post>>

argsVars == <<static_only>>
shapeVars == <<intro, probeLog, template_idx, query_str, discovery>>
retryVars == <<attempt, last_exc, slept, tries, netExc>>
pageVars == <<all_items, cursor, page, retryVars, retry, served, page_info, pagState>>
outVars == <<raw_file, feed_out>>
staticVars == <<staticCalls, staticOK>>
normVars == <<item, vg>>
postVars == <<wire, post>>

Request(kind, shape, limit, cur) ==
    [kind |-> kind, shape |-> shape, limit |-> limit, cursor |-> cur]

\* The summary of a retry invocation: the transport calls it made, whether it
\* returned or raised and, when it raised, what it raised and what its last
\* transport call had failed with.
RetryDone(calls, outcome, raised, lastFailure) ==
    [calls |-> calls, outcome |-> outcome, raised |-> raised, lastFailure |-> lastFailure]

NoRetry == RetryDone(0, "none", "none", "none")

\* Nothing of the pipeline has run.
PipelineIdle ==
    /\ pc = "main"
    /\ intro = "not_run"
    /\ discovery = NoDiscovery
    /\ probeLog = <<>>
    /\ template_idx = 0
    /\ query_str = NoShape
    /\ all_items = <<>>
    /\ cursor = ""
    /\ page = 0
    /\ attempt = 0
    /\ last_exc = "none"
    /\ slept = <<>>
    /\ tries = 0
    /\ netExc = "none"
    /\ retry = NoRetry
    /\ served = <<>>
    /\ page_info = NoPageInfo
    /\ pagState = "IDLE"
    /\ lastRequest = Request("none", NoShape, 0, "")
    /\ raw_games = None
    /\ staticCalls = 0
    /\ staticOK = "none"
    /\ raw_file = None
    /\ feed_out = None
    /\ uncaught = "none"

Init ==
    /\ static_only \in BOOLEAN
    /\ PipelineIdle
    /\ item = NoItem
    /\ vg = NoEntity
    /\ wire = <<>>
    /\ post = NoPost

\* item_to_videogame is about to be applied to one source record.
InitNorm ==
    /\ static_only = FALSE
    /\ PipelineIdle
    /\ SourceRecord(item)
    /\ vg = NoEntity
    /\ wire = <<>>
    /\ post = NoPost

\* _post_graphql is about to be called once; the remote has an answer for the
\* request and one for a second request, should there be one.
InitPost ==
    /\ static_only = FALSE
    /\ PipelineIdle
    /\ item = NoItem
    /\ vg = NoEntity
    /\ wire \in Wires
    /\ post = NoPost

\* ------------------------------------------------------------------ actions
\* _post_graphql_with_retry is entered: last_exc = None, attempt = 0.
EnterRetry ==
    /\ attempt' = 0
    /\ last_exc' = "none"
    /\ slept' = <<>>
    /\ tries' = 0
    /\ netExc' = "none"

\* fetch_all_graphql has a query shape: the page loop starts.
StartPaging(shape) ==
    /\ query_str' = shape
    /\ all_items' = <<>>
    /\ cursor' = ""
    /\ page' = 1
    /\ EnterRetry
    /\ pagState' = "FETCHING"
    /\ pc' = "page"
    /\ UNCHANGED <<retry, served, page_info, raw_games>>

\* fetch_all_graphql returns `ret` to main, which falls back to the static
\* JSON when it is None.
ReturnToMain(ret) ==
    /\ raw_games' = ret
    /\ pc' = AfterGraphql(ret)

\* main up to the first request.
Main ==
    /\ pc = "main"
    /\ pc' = IF static_only THEN "static" ELSE "introspect"
    /\ UNCHANGED <<argsVars, normVars, postVars, shapeVars, pageVars, outVars, lastRequest, raw_games,
                   staticVars, uncaught>>

\* try_introspected_query, first half: the introspection request and the
\* derivation of the field selection.
Introspect ==
    /\ pc = "introspect"
    /\ \E reply \in RepliesWith(SchemaBodies) :
         LET s == introspect_schema(_post_graphql(reply))
             fields == IF s.exc = "none"
                       THEN discover_apps_query_fields(s.types_map) ELSE "None"
         IN  /\ intro' = IF s.exc # "none" THEN "raised"
                         ELSE IF fields = "None" THEN "no_fields" ELSE "fields"
             /\ discovery' = [discovery EXCEPT !.introspections = @ + 1,
                                               !.found = SchemaFound(reply)]
             /\ pc' = IF fields = "None" THEN "probe" ELSE "intro_probe"
    /\ lastRequest' = Request("introspection", NoShape, 0, "")
    /\ template_idx' = 0
    /\ UNCHANGED <<argsVars, normVars, postVars, probeLog, query_str, pageVars, outVars, raw_games,
                   staticVars, uncaught>>

\* try_introspected_query, second half: the test query, and what
\* fetch_all_graphql does with the answer.
ProbeIntrospected ==
    /\ pc = "intro_probe"
    /\ lastRequest' = Request("probe", IntrospectedShape, 1, "")
    /\ \E reply \in RepliesWith(ProbeBodies) :
         LET works == IntrospectedProbeWorks(_post_graphql(reply))
         IN  /\ probeLog' = Append(probeLog, [shape |-> IntrospectedShape,
                                              ok |-> ProbeSucceeded(reply)])
             /\ discovery' = [discovery EXCEPT !.probes = @ + 1,
                                               !.answered = RequestSucceeded(reply),
                                               !.usable = HasItemList(reply)]
             /\ IF works
                THEN /\ intro' = "works"
                     /\ StartPaging(IntrospectedShape)
                ELSE /\ intro' = "probe_failed"
                     /\ pc' = "probe"
                     /\ UNCHANGED <<query_str, pageVars, raw_games>>
    /\ UNCHANGED <<argsVars, normVars, postVars, template_idx, outVars, staticVars, uncaught>>

\* One turn of probe_working_template's loop, and what fetch_all_graphql
\* does when the loop ends.
ProbeTemplate ==
    /\ pc = "probe"
    /\ lastRequest' = Request("probe", QUERY_TEMPLATES[template_idx + 1], 1, "")
    /\ \E reply \in RepliesWith(ProbeBodies) :
         LET works == TemplateProbeWorks(_post_graphql(reply))
             shape == QUERY_TEMPLATES[template_idx + 1]
             todo == AfterProbe(works, template_idx)
         IN  /\ probeLog' = Append(probeLog, [shape |-> shape, ok |-> ProbeSucceeded(reply)])
             /\ IF todo = "use"
                THEN /\ StartPaging(shape)
                     /\ UNCHANGED template_idx
                ELSE IF todo = "next"
                THEN /\ template_idx' = template_idx + 1
                     /\ pc' = "probe"
                     /\ UNCHANGED <<query_str, pageVars, raw_games>>
                ELSE /\ ReturnToMain(None)
                     /\ UNCHANGED <<template_idx, query_str, pageVars>>
    /\ UNCHANGED <<argsVars, normVars, postVars, intro, discovery, outVars, staticVars, uncaught>>

\* One attempt of _post_graphql_with_retry for the current page, and all the
\* page loop does with its outcome.
PageAttempt ==
    /\ pc = "page"
    /\ lastRequest' = Request("page", query_str, PAGE_SIZE, cursor)
    /\ \E reply \in RepliesWith(PageBodies(Len(served) + 1, Len(Flatten(served)),
                                           Len(served) + 1 < MaxPages)) :
         LET r == _post_graphql(reply)
             items == ItemsOrEmpty(r.data)
         IN  IF r.exc # "none"
             THEN \* except Exception: last_exc = exc, wait, sleep
                  /\ last_exc' = AssignLast(last_exc, r.exc)
                  /\ slept' = Append(slept, Backoff(attempt))
                  /\ tries' = tries + 1
                  /\ netExc' = r.exc
                  /\ IF ~Exhausted(attempt)
                     THEN /\ attempt' = attempt + 1
                          /\ pc' = "page"
                          /\ UNCHANGED <<all_items, cursor, page, retry, served, page_info, pagState,
                                         raw_games, uncaught>>
                     ELSE \* raise last_exc, caught by the page loop
                          /\ retry' = RetryDone(tries + 1, "raised",
                                                AssignLast(last_exc, r.exc), r.exc)
                          /\ pagState' = IF OnPageError(all_items).none
                                         THEN "FAILED_EMPTY" ELSE "FAILED_WITH_PARTIAL"
                          /\ ReturnToMain(OnPageError(all_items))
                          /\ UNCHANGED <<all_items, cursor, page, attempt, served, page_info, uncaught>>
             ELSE /\ retry' = RetryDone(tries + 1, "returned", "none", "none")
                  /\ IF PageBodyError(r.data) # "none"
                     THEN \* the exception leaves fetch_all_graphql and main
                          /\ uncaught' = PageBodyError(r.data)
                          /\ pagState' = "RAISED"
                          /\ pc' = "fatal"
                          /\ UNCHANGED <<all_items, cursor, page, retryVars, served, page_info, raw_games>>
                     ELSE /\ all_items' = Extend(all_items, items)
                          /\ served' = Append(served, ServedItems(reply.body))
                          /\ page_info' = IF HasNextPage(r.data)
                                           THEN ServedPageInfo(reply.body)
                                           ELSE NoPageInfo
                          /\ UNCHANGED uncaught
                          /\ IF ~HasNextPage(r.data)
                             THEN /\ pagState' = "DONE"
                                  /\ ReturnToMain(Some(Extend(all_items, items)))
                                  /\ UNCHANGED <<cursor, page, retryVars>>
                             ELSE /\ cursor' = EndCursor(r.data)
                                  /\ page' = page + 1
                                  /\ EnterRetry
                                  /\ pc' = "page"
                                  /\ UNCHANGED <<pagState, raw_games>>
    /\ UNCHANGED <<argsVars, normVars, postVars, shapeVars, outVars, staticVars>>

\* What the static endpoint yields: no response, a non-success status, a body
\* that is not JSON, or a list of records.
StaticReplies ==
    {[received |-> FALSE, ok |-> FALSE, parses |-> FALSE, games |-> <<>>],
     [received |-> TRUE, ok |-> FALSE, parses |-> FALSE, games |-> <<>>],
     [received |-> TRUE, ok |-> TRUE, parses |-> FALSE, games |-> <<>>]}
    \cup {[received |-> TRUE, ok |-> TRUE, parses |-> TRUE, games |-> Records(1, n)] :
            n \in 0..MaxFlat}

\* The fetch with its failures swallowed into an empty list.
fetch_static_json_quiet(reply) ==
    IF reply.received /\ reply.ok /\ reply.parses
    THEN [exc |-> "none", games |-> reply.games]
    ELSE [exc |-> "none", games |-> <<>>]

\* fetch_static_json: session.get, raise_for_status, resp.json.
fetch_static_json(reply) ==
    IF ~reply.received THEN [exc |-> "ConnectionError", games |-> <<>>]
    ELSE IF ~reply.ok THEN [exc |-> "HTTPError", games |-> <<>>]
    ELSE IF ~reply.parses THEN [exc |-> "JSONDecodeError", games |-> <<>>]
    ELSE [exc |-> "none", games |-> reply.games]

\* main's fallback: the static JSON list, or the end of the run.
FetchStatic ==
    /\ pc = "static"
    /\ lastRequest' = Request("static", NoShape, 0, "")
    /\ staticCalls' = staticCalls + 1
    /\ \E reply \in StaticReplies :
         LET r == fetch_static_json(reply)
         IN  /\ staticOK' = IF reply.received /\ reply.ok /\ reply.parses
                            THEN "ok" ELSE "failed"
             /\ IF r.exc # "none"
                THEN /\ uncaught' = r.exc
                     /\ pc' = "fatal"
                     /\ UNCHANGED raw_games
                ELSE /\ raw_games' = Some(r.games)
                     /\ pc' = "save_raw"
                     /\ UNCHANGED uncaught
    /\ UNCHANGED <<argsVars, normVars, postVars, shapeVars, pageVars, outVars>>

\* main: the raw dump, written when both --raw and --output are given
\* (args.raw and args.output are read here and nowhere before).
SaveRaw ==
    /\ pc = "save_raw"
    /\ \E args_raw \in BOOLEAN, args_output \in BOOLEAN :
         raw_file' = IF args_raw /\ args_output THEN Some(raw_games.list) ELSE raw_file
    /\ pc' = "emit"
    /\ UNCHANGED <<argsVars, normVars, postVars, shapeVars, pageVars, feed_out, lastRequest, raw_games,
                   staticVars, uncaught>>

\* main: the conversion and the data feed, to the file or to stdout.
WriteFeed ==
    /\ pc = "emit"
    /\ feed_out' = Some(build_datafeed(raw_games.list))
    /\ pc' = "done"
    /\ UNCHANGED <<argsVars, normVars, postVars, shapeVars, pageVars, raw_file, lastRequest, raw_games,
                   staticVars, uncaught>>

Next ==
    \/ Main
    \/ Introspect
    \/ ProbeIntrospected
    \/ ProbeTemplate
    \/ PageAttempt
    \/ FetchStatic
    \/ SaveRaw
    \/ WriteFeed

Spec == Init /\ [][Next]_vars

\* vg = item_to_videogame(item)
Normalize ==
    /\ item # NoItem
    /\ vg = NoEntity
    /\ vg' = item_to_videogame(item)
    /\ UNCHANGED <<argsVars, item, postVars, pc, shapeVars, pageVars, lastRequest,
                   raw_games, staticVars, outVars, uncaught>>

NextNorm == Normalize

SpecNorm == InitNorm /\ [][NextNorm]_vars

\* One call of _post_graphql: session.post takes the remote's next reply, and
\* the call returns the parsed body or raises.
Post ==
    /\ post = NoPost
    /\ wire # <<>>
    /\ LET r == _post_graphql(Head(wire))
       IN  post' = [sent |-> post.sent + 1,
                    reply |-> Head(wire),
                    outcome |-> IF r.exc = "none" THEN "returned" ELSE "raised",
                    exc |-> r.exc,
                    data |-> r.data]
    /\ wire' = Tail(wire)
    /\ UNCHANGED <<argsVars, normVars, pc, shapeVars, pageVars, lastRequest, raw_games,
                   staticVars, outVars, uncaught>>

NextPost == Post

SpecPost == InitPost /\ [][NextPost]_vars

TypeOK ==
    /\ pc \in {"main", "introspect", "intro_probe", "probe", "page", "static",
               "save_raw", "emit", "done", "fatal"}
    /\ template_idx \in 0..(Len(QUERY_TEMPLATES) - 1)
    /\ attempt \in 0..(MAX_RETRIES - 1)
    /\ pagState \in {"IDLE", "FETCHING", "DONE", "FAILED_WITH_PARTIAL", "FAILED_EMPTY",
                     "RAISED"}

\* ------------------------------------------------------------------- claims
\* The shape candidates in their order of precedence.
Candidates == <<IntrospectedShape>> \o QUERY_TEMPLATES

ProbedShapes == [i \in 1..Len(probeLog) |-> probeLog[i].shape]

\* C1: the candidates are probed in the order introspected, template 0, 1, 2
\* (the introspected one only when there is one); every probe but the last
\* made was unsuccessful, and a shape is selected exactly when the last probe
\* made succeeded, and is then the shape of that probe: after a successful
\* probe no further candidate is probed.  In particular, with an
\* introspection that raised, template 0 rejected and template 1 accepted,
\* template 1 is chosen and template 2 is never requested.
C1_FirstWorkingShape ==
    /\ \/ ProbedShapes = SubSeq(Candidates, 1, Len(probeLog))
       \/ ProbedShapes = SubSeq(Candidates, 2, Len(probeLog) + 1)
    /\ \A i \in 1..(Len(probeLog) - 1) : ~probeLog[i].ok
    /\ query_str # NoShape <=> (probeLog # <<>> /\ Last(probeLog).ok)
    /\ query_str # NoShape => query_str = Last(probeLog).shape
    /\ ( /\ intro = "raised"
         /\ Len(probeLog) >= 2
         /\ probeLog[1] = [shape |-> "template0", ok |-> FALSE]
         /\ probeLog[2] = [shape |-> "template1", ok |-> TRUE] )
       => /\ query_str = "template1"
          /\ \A i \in 1..Len(probeLog) : probeLog[i].shape # "template2"

C1_Witness ==
    /\ intro = "raised"
    /\ probeLog = << [shape |-> "template0", ok |-> FALSE],
                     [shape |-> "template1", ok |-> TRUE] >>
    /\ query_str = "template1"
    /\ pc = "done"

\* C2: whenever a page request has been sent, it used a shape whose probe
\* succeeded earlier in the run.
C2_PagedShapeWasProbed ==
    lastRequest.kind = "page" =>
        /\ lastRequest.shape = query_str
        /\ \E i \in 1..Len(probeLog) :
               probeLog[i].shape = lastRequest.shape /\ probeLog[i].ok

C2_Witness ==
    /\ lastRequest.kind = "page"
    /\ lastRequest.shape = IntrospectedShape
    /\ Len(served) >= 1

\* C3: while the page loop runs the accumulator is the concatenation, in page
\* order, of the item lists of the pages served, and when the loop ends on a
\* page without continuation, fetch_all_graphql returns that concatenation.
C3_Concatenation ==
    /\ pagState \in {"FETCHING", "DONE"} => all_items = Flatten(served)
    /\ pagState = "DONE" => raw_games = Some(Flatten(served))

C3_Witness ==
    /\ pagState = "DONE"
    /\ Len(served) = 3
    /\ \A i \in 1..3 : Len(served[i]) >= 2
    /\ raw_games.list = <<1, 2, 3, 4, 5, 6, 7>>

\* The page loop ended because the retry wrapper raised.
PageFailed == retry.outcome = "raised"

\* C4: when the retry wrapper raises for a page while the accumulator holds
\* at least one item, the paginator ends FAILED-WITH-PARTIAL: it returns
\* exactly the items of the pages served so far, not None; nothing is
\* raised to main and the static JSON is not fetched.
C4_PartialResult ==
    /\ (PageFailed /\ all_items # <<>>) => pagState = "FAILED_WITH_PARTIAL"
    /\ pagState = "FAILED_WITH_PARTIAL" =>
          /\ PageFailed
          /\ raw_games = Some(Flatten(served))
          /\ raw_games.list # <<>>
          /\ uncaught = "none"
          /\ staticCalls = 0
          /\ pc \in {"save_raw", "emit", "done"}

C4_Witness ==
    /\ pagState = "FAILED_WITH_PARTIAL"
    /\ served = << <<1, 2, 3>>, <<4, 5>> >>
    /\ raw_games = Some(<<1, 2, 3, 4, 5>>)
    /\ retry.calls = MAX_RETRIES

\* C5: when the retry wrapper raises for a page while the accumulator is
\* empty, the paginator ends FAILED-EMPTY: fetch_all_graphql returns None
\* (not an empty list), and main's next request is the one for the static
\* JSON.
C5_EmptyFailureFallsBack ==
    /\ (PageFailed /\ all_items = <<>>) => pagState = "FAILED_EMPTY"
    /\ pagState = "FAILED_EMPTY" =>
          /\ PageFailed
          /\ \/ pc = "static" /\ raw_games = None /\ staticCalls = 0
             \/ staticCalls = 1 /\ lastRequest.kind = "static"

C5_Witness ==
    /\ pagState = "FAILED_EMPTY"
    /\ retry.calls = MAX_RETRIES
    /\ staticCalls = 1
    /\ pc = "done"

\* C6, as claimed: whenever the retry wrapper raises for a page after at
\* least one earlier page request of the run succeeded, the run proceeds
\* with the data of the pages served: the static JSON is not fetched and the
\* run does not fail.
C6_AsClaimed ==
    (PageFailed /\ Len(served) >= 1) =>
        /\ staticCalls = 0
        /\ pc \in {"save_raw", "emit", "done"}

\* C6, amended: whenever the retry wrapper raises for a page after the
\* earlier pages of the run delivered at least one item, the run proceeds
\* with the items of those pages: the static JSON is not fetched, nothing is
\* raised, and what is written (raw dump, data feed) holds exactly these
\* items.
C6_PartialIsRecoverable ==
    (PageFailed /\ Flatten(served) # <<>>) =>
        /\ staticCalls = 0
        /\ uncaught = "none"
        /\ pc \in {"save_raw", "emit", "done"}
        /\ ~raw_file.none => raw_file.list = Flatten(served)
        /\ ~feed_out.none => feed_out.list = build_datafeed(Flatten(served))

C6_Witness ==
    /\ PageFailed
    /\ Len(served) = 2
    /\ served[1] = <<>>
    /\ served[2] # <<>>
    /\ pc = "done"
    /\ feed_out.list = build_datafeed(served[2])

\* C7: one invocation of the retry wrapper makes at most MAX_RETRIES
\* transport calls; when it raises it has made exactly MAX_RETRIES calls,
\* all failed, it raises the failure of the last of them, and no page was
\* taken from it; when it returns it has made between 1 and MAX_RETRIES
\* calls.
C7_BoundedRetry ==
    /\ tries <= MAX_RETRIES
    /\ retry.calls <= MAX_RETRIES
    /\ Len(slept) = tries
    /\ retry.outcome = "raised" =>
          /\ retry.calls = MAX_RETRIES
          /\ retry.raised # "none"
          /\ retry.raised = retry.lastFailure
          /\ Len(served) = page - 1
    /\ retry.outcome = "returned" => retry.calls \in 1..MAX_RETRIES

C7_Witness ==
    /\ retry.outcome = "raised"
    /\ retry.calls = MAX_RETRIES
    /\ retry.raised = "ValueError"
    /\ slept = <<2, 4, 8>>

\* Every structured-query path of the run has failed: no shape was found
\* (the introspected one unavailable or rejected, every template rejected),
\* or the paginator ended FAILED-EMPTY.
StructuredPathsFailed ==
    \/ /\ intro \in {"raised", "no_fields", "probe_failed"}
       /\ query_str = NoShape
       /\ \A t \in 1..Len(QUERY_TEMPLATES) :
             \E i \in 1..Len(probeLog) :
                 probeLog[i].shape = QUERY_TEMPLATES[t] /\ ~probeLog[i].ok
    \/ pagState = "FAILED_EMPTY"

\* C8, as claimed: the static JSON is fetched only after every
\* structured-query path of the run has failed.
C8_AsClaimed == staticCalls > 0 => StructuredPathsFailed

\* C8, amended: in a run without --static-only the static JSON is fetched
\* only after every structured-query path of the run has failed; in a run
\* with --static-only no structured query is sent at all.
C8_StaticOnlyAfterGraphql ==
    /\ (staticCalls > 0 /\ ~static_only) => StructuredPathsFailed
    /\ static_only =>
          /\ lastRequest.kind \in {"none", "static"}
          /\ intro = "not_run"
          /\ probeLog = <<>>
          /\ pagState = "IDLE"

C8_Witness ==
    /\ ~static_only
    /\ staticCalls = 1
    /\ Len(probeLog) = 4
    /\ pc = "done"

\* C9: the run ends in a fatal failure only through a failed fetch of the
\* static JSON.
C9_FatalOnlyAfterStatic ==
    pc = "fatal" => (staticCalls >= 1 /\ staticOK = "failed")

\* C10: when the one fetch of the static JSON fails, the run ends in
\* failure, and neither the raw dump nor the data feed has been written.
C10_NoOutputOnTotalFailure ==
    /\ staticCalls <= 1
    /\ staticOK = "failed" =>
          /\ pc = "fatal"
          /\ uncaught # "none"
          /\ raw_file = None
          /\ feed_out = None

C10_Witness ==
    /\ staticOK = "failed"
    /\ ~static_only
    /\ Len(probeLog) = 4
    /\ pc = "fatal"

\* C11: a page request that the remote rejected with an application-level
\* error (an "errors" key, raised as ValueError) is not followed by another
\* request with the same query shape.
C11_NoResendAfterRejection ==
    [][(pc = "page" /\ lastRequest.kind = "page" /\ netExc = "ValueError")
          => lastRequest'.shape # lastRequest.shape]_vars


\* C12: every entity item_to_videogame returns has a non-empty "@id" and a
\* non-empty "name", whichever fields the source record has or lacks.
C12_IdentityAndNameNonEmpty ==
    vg # NoEntity => /\ vg.id # ""
                     /\ vg.name.t = "str"
                     /\ vg.name.v # ""

\* The status the source gives a variant, Missing when it gives none.
SourceStatus(variant) ==
    IF variant.gfn.t = "dict" THEN variant.gfn.v.status ELSE Missing

\* The variant's status is absent (not there, null or empty) or it is AVAILABLE
\* or MAINTENANCE.
Surviving(variant) ==
    SourceStatus(variant) \in {Missing, PyNone, Str(""), Str("AVAILABLE"), Str("MAINTENANCE")}

\* The variants of the source record, in source order.
SourceVariants == IF item.variants.t = "list" THEN item.variants.v ELSE <<>>

\* C13: the edition list is the primary streaming edition followed by exactly
\* one entry, in source order, for each variant whose status is absent or
\* AVAILABLE or MAINTENANCE; every other variant contributes no entry, so the
\* length is 1 + the number of surviving variants.
C13_EditionList ==
    vg # NoEntity =>
        LET kept == SelectSeq(SourceVariants, Surviving)
            eds == vg.exampleOfWork
        IN  /\ Len(eds) = 1 + Len(kept)
            /\ eds[1].kind = "primary"
            /\ eds[1].urlTemplate = Str(vg.url)
            /\ \A i \in 1..Len(kept) :
                  /\ eds[i + 1].kind = "variant"
                  /\ eds[i + 1].applicationCategory = kept[i].appStore

\* A record with a RETIRED variant before one without a status, of the STEAM
\* store: two editions, the second for the variant without a status.
C13_Witness ==
    /\ vg # NoEntity
    /\ Len(SourceVariants) = 2
    /\ SourceStatus(SourceVariants[1]) = Str("RETIRED")
    /\ SourceStatus(SourceVariants[2]) = Missing
    /\ Len(vg.exampleOfWork) = 2
    /\ vg.exampleOfWork[2].applicationCategory = Str("STEAM")

\* The fixed priority list of image roles, highest priority first.
PriorityRoles == <<"GAME_BOX_ART", "KEY_ART", "KEY_IMAGE", "HERO_IMAGE",
                   "FEATURE_IMAGE", "MARQUEE_HERO_IMAGE", "TV_BANNER">>

\* The source record's image-role map gives the role a non-empty value.
RoleSet(role) ==
    /\ item.images.t = "dict"
    /\ item.images.v[role].t = "str"
    /\ item.images.v[role].v # ""

\* The picked image is the value of the highest-priority role that is set.
PickedByPriority ==
    \E i \in 1..Len(PriorityRoles) :
        /\ RoleSet(PriorityRoles[i])
        /\ vg.image = item.images.v[PriorityRoles[i]]
        /\ \A j \in 1..(i - 1) : ~RoleSet(PriorityRoles[j])

\* The picked image is not the value of a role outside the priority list.
NoOutsideRolePicked ==
    \A r \in ImageRoles :
        (RoleSet(r) /\ \A i \in 1..Len(PriorityRoles) : PriorityRoles[i] # r)
            => vg.image # item.images.v[r]

\* C14 as stated: for every image-role map in which at least one role has a
\* non-empty value, the picked image is the value of the highest-priority
\* role of the list that is non-empty, and never the value of another role.
C14_AsClaimed ==
    (vg # NoEntity /\ \E r \in ImageRoles : RoleSet(r))
        => (PickedByPriority /\ NoOutsideRolePicked)

\* C14, amended: for every image-role map in which at least one role of the
\* priority list has a non-empty value, the picked image is the value of the
\* highest-priority role that is non-empty; and whatever the map holds, the
\* picked image is never the value of a role outside the list.
C14_HighestPriorityRole ==
    vg # NoEntity =>
        /\ (\E i \in 1..Len(PriorityRoles) : RoleSet(PriorityRoles[i])) => PickedByPriority
        /\ NoOutsideRolePicked

\* GAME_BOX_ART is not set, KEY_ART, HERO_IMAGE and KEY_ICON are: KEY_ART wins.
C14_Witness ==
    /\ vg # NoEntity
    /\ ~RoleSet("GAME_BOX_ART")
    /\ RoleSet("KEY_ART")
    /\ RoleSet("HERO_IMAGE")
    /\ RoleSet("KEY_ICON")
    /\ vg.image = item.images.v["KEY_ART"]

\* The rating entries of the source record, in source order.
SourceRatings == IF item.contentRatings.t = "list" THEN item.contentRatings.v ELSE <<>>

\* The entry is tagged by the ESRB, by PEGI.
IsESRB(cr) == cr.type \in {Str("ESRB"), Str("esrb")}
IsPEGI(cr) == cr.type \in {Str("PEGI"), Str("pegi")}

\* The label "<AUTHORITY> <CATEGORY>" of an entry, as the field of the entity
\* that holds it: the authority alone when the entry has no category, and no
\* field when the entry has neither.
EntryLabel(cr) ==
    LET authority == CASE IsESRB(cr) -> "ESRB"
                       [] IsPEGI(cr) -> "PEGI"
                       [] cr.type.t = "str" -> cr.type.v
                       [] OTHER -> ""
        category == IF cr.categoryKey.t = "str" THEN cr.categoryKey.v ELSE ""
    IN  IF authority = "" /\ category = "" THEN Missing
        ELSE IF authority = "" THEN Str(category)
        ELSE IF category = "" THEN Str(authority)
        ELSE Str(authority \o " " \o category)

HasLabel(cr) == EntryLabel(cr) # Missing

\* C15 as stated: with an ESRB entry in the list the rating is that of an ESRB
\* entry, wherever it stands; without one it is that of a PEGI entry if there
\* is one, else the label of the first entry.
C15_AsClaimed ==
    (vg # NoEntity /\ SourceRatings # <<>>) =>
        LET rs == SourceRatings
        IN  IF \E i \in 1..Len(rs) : IsESRB(rs[i])
            THEN \E i \in 1..Len(rs) : IsESRB(rs[i]) /\ vg.contentRating = EntryLabel(rs[i])
            ELSE IF \E i \in 1..Len(rs) : IsPEGI(rs[i])
            THEN \E i \in 1..Len(rs) : IsPEGI(rs[i]) /\ vg.contentRating = EntryLabel(rs[i])
            ELSE vg.contentRating = EntryLabel(rs[1])

\* C15, amended: with an ESRB entry in the list the rating is the label of the
\* last ESRB entry, wherever it stands; without one it is the label of the
\* last PEGI entry if there is one, else the first non-empty label of the
\* list, and no rating when every label is empty.
C15_PreferredRating ==
    (vg # NoEntity /\ SourceRatings # <<>>) =>
        LET rs == SourceRatings
            esrb == SelectSeq(rs, IsESRB)
            pegi == SelectSeq(rs, IsPEGI)
            labelled == SelectSeq(rs, HasLabel)
        IN  vg.contentRating =
                IF esrb # <<>> THEN EntryLabel(esrb[Len(esrb)])
                ELSE IF pegi # <<>> THEN EntryLabel(pegi[Len(pegi)])
                ELSE IF labelled # <<>> THEN EntryLabel(labelled[1])
                ELSE Missing

\* An ESRB entry between an entry of another authority and a PEGI entry.
C15_Witness ==
    /\ vg # NoEntity
    /\ Len(SourceRatings) = 3
    /\ SourceRatings[1].type = Str("USK")
    /\ SourceRatings[2] = [type |-> Str("ESRB"), categoryKey |-> Str("T")]
    /\ SourceRatings[3].type = Str("PEGI")
    /\ vg.contentRating = Str("ESRB T")

\* The optional output fields C16 names.
OptionalFields == {"description", "genre", "contentRating", "image", "publisher",
                   "contributor", "keywords", "sameAs", "datePublished"}

\* A value that is there and is neither null nor empty.
Supplied(x) == x \notin {Missing, PyNone, Str(""), List(<<>>)}

\* The source record supplies a non-empty value for the output field.
SourceSupplies(field) ==
    CASE field = "description" -> Supplied(item.longDescription) \/ Supplied(item.description)
      [] field = "genre" -> Supplied(item.genres)
      [] field = "keywords" -> Supplied(item.keywords)
      [] field = "contentRating" ->
            \E i \in 1..Len(SourceRatings) : HasLabel(SourceRatings[i])
      [] field = "image" ->
            \/ \E i \in 1..Len(PriorityRoles) : RoleSet(PriorityRoles[i])
            \/ Supplied(item.image) \/ Supplied(item.imageUrl) \/ Supplied(item.boxArt)
      [] field = "publisher" -> Supplied(item.publisherName) \/ Supplied(item.publisher)
      [] field = "contributor" -> Supplied(item.developerName) \/ Supplied(item.developer)
      [] field = "sameAs" ->
            \/ Supplied(item.steamUrl)
            \/ /\ item.storeIds.t = "list"
               /\ \E i \in 1..Len(item.storeIds.v) :
                     /\ item.storeIds.v[i].store \in
                            {Str("STEAM"), Str("steam"), Str("EPIC"), Str("epic")}
                     /\ Supplied(item.storeIds.v[i].id)
      [] field = "datePublished" ->
            /\ item.computedValues.t = "dict"
            /\ \/ Supplied(item.computedValues.v.earliestReleaseDate)
               \/ Supplied(item.computedValues.v.earliestStreetDate)

\* The value of an output field is neither null nor empty, nor an organization
\* without a name.
NonEmptyValue(x) ==
    /\ Supplied(x)
    /\ x.t = "dict" => Supplied(x.v.name)
    /\ x.t = "list" => \A i \in 1..Len(x.v) : Supplied(x.v[i])

\* C16: an optional output field is in the entity only when the source record
\* supplies a non-empty value for it, and then with a non-empty value; when
\* the source supplies none the key is left out.
C16_OptionalFieldsOmitted ==
    vg # NoEntity =>
        \A f \in OptionalFields :
            /\ vg[f] # Missing => (SourceSupplies(f) /\ NonEmptyValue(vg[f]))
            /\ ~SourceSupplies(f) => vg[f] = Missing

\* A record with an empty longDescription and a description, and none of the
\* other optional values: the entity has the description and not the others.
C16_Witness ==
    /\ vg # NoEntity
    /\ item.longDescription = Str("")
    /\ item.description = Str("short text")
    /\ vg.description = Str("short text")
    /\ \A f \in OptionalFields \ {"description"} : vg[f] = Missing

\* The token the latest page response returned, "" when it returned none.
ReturnedToken == IF page_info.endCursor = "absent" THEN "" ELSE page_info.endCursor

\* C17: the first page request carries the empty cursor, every later one the
\* continuation token of the page response before it; every page request
\* asks for PAGE_SIZE records; and a page request follows a page response
\* only when that response set the continuation flag.
C17_CursorFollowsResponse ==
    [][(pc = "page" /\ lastRequest'.kind = "page") =>
          /\ lastRequest'.limit = PAGE_SIZE
          /\ lastRequest'.limit = 1200
          /\ served = <<>> => lastRequest'.cursor = ""
          /\ served # <<>> =>
                /\ page_info.present = "dict"
                /\ page_info.hasNextPage
                /\ lastRequest'.cursor = ReturnedToken]_vars

\* Two pages were received and a third is to be requested: the request that
\* was answered with the second page carried the token of the first.
C17_Witness ==
    /\ pc = "page"
    /\ Len(served) = 2
    /\ lastRequest = Request("page", query_str, PAGE_SIZE, Token(1))
    /\ page_info.hasNextPage
    /\ cursor = Token(2)

\* C18: once fetch_all_graphql has started to page it ends in one of DONE,
\* FAILED-WITH-PARTIAL and FAILED-EMPTY, each page costing at most MAX_RETRIES
\* transport calls.
C18_EndsInOneOfThree ==
    /\ tries <= MAX_RETRIES
    /\ pagState \in {"IDLE", "FETCHING", "DONE", "FAILED_WITH_PARTIAL", "FAILED_EMPTY"}
    /\ (pagState # "IDLE" /\ pc # "page") =>
          pagState \in {"DONE", "FAILED_WITH_PARTIAL", "FAILED_EMPTY"}

\* C19: within one invocation of the retry wrapper the delay after the k-th
\* failed attempt is INITIAL_BACKOFF * 2^(k-1), that is 2, 4, 8: it depends
\* on k alone.
C19_ExponentialBackoff ==
    /\ \A k \in 1..Len(slept) : slept[k] = INITIAL_BACKOFF * 2^(k - 1)
    /\ slept = SubSeq(<<2, 4, 8>>, 1, Len(slept))

\* Three attempts for one page have failed, the last for want of a response.
C19_Witness ==
    /\ Len(slept) = 3
    /\ slept[1] = 2
    /\ slept[2] = 4
    /\ slept[3] = 8
    /\ last_exc = "ConnectionError"

\* C20: try_introspected_query sends exactly one introspection request and at
\* most one test query, and it returns a candidate shape exactly when the
\* introspection found the apps field and its type and the test query was
\* answered with a usable item list.
C20_CandidateOnlyIfValidated ==
    intro \notin {"not_run", "fields"} =>
        /\ discovery.introspections = 1
        /\ discovery.probes <= 1
        /\ intro = "works" <=>
              (discovery.found /\ discovery.answered /\ discovery.usable)

\* The reply has a success status and a JSON body without an "errors" key.
CleanSuccess(reply) ==
    reply.received /\ reply.ok /\ reply.parses /\ ~reply.errors

\* C21: one call of _post_graphql sends exactly one request, whatever the
\* reply (the remote's answer to a second request is left untouched); it
\* returns the parsed body exactly when the reply has a success status and a
\* body without an "errors" key; in every other case it raises (HTTPError for
\* a non-success status, ValueError for an "errors" key, data or not) and
\* returns nothing.
C21_OneRequestNoPartialSuccess ==
    post # NoPost =>
        /\ post.sent = 1
        /\ Len(wire) = 1
        /\ post.outcome \in {"returned", "raised"}
        /\ post.outcome = "returned" <=> CleanSuccess(post.reply)
        /\ post.outcome = "returned" =>
              (post.exc = "none" /\ post.data = post.reply.body)
        /\ post.outcome = "raised" =>
              (post.exc # "none" /\ post.data = NullBody)
        /\ (post.reply.received /\ ~post.reply.ok) => post.exc = "HTTPError"
        /\ (post.reply.ok /\ post.reply.parses /\ post.reply.errors) =>
              post.exc = "ValueError"

\* A success status with an "errors" key beside an item list of one record:
\* the call raised after its one request, and a reply is still to be had.
C21_Witness ==
    /\ post.sent = 1
    /\ post.reply.ok
    /\ post.reply.errors
    /\ post.reply.body.items = ItemsList(Records(1, 1))
    /\ post.outcome = "raised"
    /\ post.exc = "ValueError"
    /\ wire = <<Reply(TRUE, TRUE, TRUE, FALSE,
                      Body("malformed", "dict", ItemsList(Records(1, 1)),
                           "dict", FALSE, "absent"))>>

====
